---- MODULE Spec2Model ----
(***************************************************************************)
(* Gujarati news search bot: query interpretation, corpus search, article  *)
(* parsing, result formatting and the cached external calls.               *)
(*                                                                         *)
(* Python strings are modelled as sequences of characters, a character     *)
(* being a one-character TLA+ string (a code point outside ASCII is named  *)
(* by its number, e.g. "u0A95").  The None object is the one-element        *)
(* sequence <<"<None>">>, which no string equals.                           *)
(***************************************************************************)
EXTENDS Integers, Sequences, FiniteSets, TLC

VARIABLES
    \* search_articles (src/app.py)
    tags, date, files, idx, results, picked, failed, raisedAt, spc,
    \* parse_article called on its own (src/utils.py)
    pin, pout, ppc,
    \* translate_query_and_extract (src/app.py)
    query, source_lang, query_en, reply, response, itags, idate, ipc,
    \* format_search_results, format_article_content (src/utils.py)
    fresults, farticle, ftags, target_lang, formatted_results, fidx, fout,
    translations, fpc,
    \* the st.cache_data caches of the external calls
    now, up, cache, ncalls, lastCall, withCache, withoutCache,
    \* get_color_legend, highlight_matching_text (src/translate_utils.py)
    current_tags, hcontent, legend_html, highlighted_content, tidx, hpc

searchVars == <<tags, date, files, idx, results, picked, failed, raisedAt, spc>>
parseVars == <<pin, pout, ppc>>
interpVars == <<query, source_lang, query_en, reply, response, itags, idate, ipc>>
formatVars == <<fresults, farticle, ftags, target_lang, formatted_results, fidx,
                fout, translations, fpc>>
cacheVars == <<now, up, cache, ncalls, lastCall, withCache, withoutCache>>
highlightVars == <<current_tags, hcontent, legend_html, highlighted_content, tidx, hpc>>
vars == <<searchVars, parseVars, interpVars, formatVars, cacheVars, highlightVars>>

\* ------------------------------------------------------------------------
\* Python values and str methods
\* ------------------------------------------------------------------------

None == <<"<None>">>

IsStr(v) == v # None

\* Python truthiness of an Optional[str]
Truthy(v) == v # None /\ v # <<>>

UpperLetters == <<"A","B","C","D","E","F","G","H","I","J","K","L","M",
                  "N","O","P","Q","R","S","T","U","V","W","X","Y","Z">>
LowerLetters == <<"a","b","c","d","e","f","g","h","i","j","k","l","m",
                  "n","o","p","q","r","s","t","u","v","w","x","y","z">>

LowerMap ==
    [c \in {UpperLetters[i] : i \in 1..Len(UpperLetters)} |->
        LowerLetters[CHOOSE i \in 1..Len(UpperLetters) : UpperLetters[i] = c]]

LowerChar(c) == IF c \in DOMAIN LowerMap THEN LowerMap[c] ELSE c

\* str.lower()
Lower(s) == [i \in 1..Len(s) |-> LowerChar(s[i])]

IsSpace(c) == c \in {" ", "\n", "\t", "\r"}

Digits == <<"0","1","2","3","4","5","6","7","8","9">>

IsDigit(c) == \E i \in 1..Len(Digits) : Digits[i] = c

DigitVal(c) == (CHOOSE i \in 1..Len(Digits) : Digits[i] = c) - 1

SetMin(S) == CHOOSE x \in S : \A y \in S : x <= y

SetMax(S) == CHOOSE x \in S : \A y \in S : y <= x

\* s[i:] starts with pat (1-based i)
StartsAt(s, pat, i) ==
    /\ i >= 1
    /\ i + Len(pat) - 1 <= Len(s)
    /\ \A k \in 1..Len(pat) : s[i + k - 1] = pat[k]

\* str.find(pat, from): the first index >= from where pat occurs, 0 if none
Find(s, pat, from) ==
    LET I == {i \in from..(Len(s) - Len(pat) + 1) : StartsAt(s, pat, i)}
    IN  IF I = {} THEN 0 ELSE SetMin(I)

\* pat in s
Contains(s, pat) == Find(s, pat, 1) # 0

\* str.strip()
Strip(s) ==
    LET I == {i \in 1..Len(s) : ~IsSpace(s[i])}
    IN  IF I = {} THEN <<>> ELSE SubSeq(s, SetMin(I), SetMax(I))

\* str.split(sep) for a non-empty separator
RECURSIVE Split(_, _)
Split(s, sep) ==
    LET i == Find(s, sep, 1)
    IN  IF i = 0 THEN <<s>>
        ELSE <<SubSeq(s, 1, i - 1)>> \o Split(SubSeq(s, i + Len(sep), Len(s)), sep)

\* ------------------------------------------------------------------------
\* datetime.strptime / strftime for the two formats the program uses
\* ------------------------------------------------------------------------

NoField == [ok |-> FALSE, val |-> 0, next |-> 0]

\* two characters at i are digits c1 c2 with c1 in first and c2 in second
TwoAt(s, i, first, second) ==
    /\ i + 1 <= Len(s)
    /\ s[i] \in first
    /\ s[i + 1] \in second

NumAt(s, i) == 10 * DigitVal(s[i]) + DigitVal(s[i + 1])

D09 == {"0","1","2","3","4","5","6","7","8","9"}
D19 == D09 \ {"0"}

\* %d : 3[0-1]|[1-2]\d|0[1-9]|[1-9]| [1-9]
FieldDay(s, i) ==
    IF \/ TwoAt(s, i, {"3"}, {"0","1"})
       \/ TwoAt(s, i, {"1","2"}, D09)
       \/ TwoAt(s, i, {"0"}, D19)
    THEN [ok |-> TRUE, val |-> NumAt(s, i), next |-> i + 2]
    ELSE IF i <= Len(s) /\ s[i] \in D19
    THEN [ok |-> TRUE, val |-> DigitVal(s[i]), next |-> i + 1]
    ELSE IF TwoAt(s, i, {" "}, D19)
    THEN [ok |-> TRUE, val |-> DigitVal(s[i + 1]), next |-> i + 2]
    ELSE NoField

\* %m and %I : 1[0-2]|0[1-9]|[1-9]
FieldMonth(s, i) ==
    IF \/ TwoAt(s, i, {"1"}, {"0","1","2"})
       \/ TwoAt(s, i, {"0"}, D19)
    THEN [ok |-> TRUE, val |-> NumAt(s, i), next |-> i + 2]
    ELSE IF i <= Len(s) /\ s[i] \in D19
    THEN [ok |-> TRUE, val |-> DigitVal(s[i]), next |-> i + 1]
    ELSE NoField

\* %M : [0-5]\d|\d
FieldMinute(s, i) ==
    IF TwoAt(s, i, {"0","1","2","3","4","5"}, D09)
    THEN [ok |-> TRUE, val |-> NumAt(s, i), next |-> i + 2]
    ELSE IF i <= Len(s) /\ s[i] \in D09
    THEN [ok |-> TRUE, val |-> DigitVal(s[i]), next |-> i + 1]
    ELSE NoField

\* %Y : \d\d\d\d
FieldYear(s, i) ==
    IF i + 3 <= Len(s) /\ \A k \in 0..3 : IsDigit(s[i + k])
    THEN [ok |-> TRUE,
          val |-> 1000 * DigitVal(s[i]) + 100 * DigitVal(s[i + 1])
                  + 10 * DigitVal(s[i + 2]) + DigitVal(s[i + 3]),
          next |-> i + 4]
    ELSE NoField

\* a literal character of the format
FieldLit(s, i, c) ==
    IF i <= Len(s) /\ s[i] = c
    THEN [ok |-> TRUE, val |-> 0, next |-> i + 1]
    ELSE NoField

\* whitespace in the format: \s+
FieldSpaces(s, i) ==
    IF i <= Len(s) /\ IsSpace(s[i])
    THEN LET J == {j \in i..Len(s) : \A k \in i..j : IsSpace(s[k])}
         IN  [ok |-> TRUE, val |-> 0, next |-> SetMax(J) + 1]
    ELSE NoField

\* %p : am|pm, case-insensitive; val 0 for AM, 1 for PM
FieldAmPm(s, i) ==
    IF i + 1 <= Len(s) /\ LowerChar(s[i]) \in {"a", "p"} /\ LowerChar(s[i + 1]) = "m"
    THEN [ok |-> TRUE, val |-> IF LowerChar(s[i]) = "a" THEN 0 ELSE 1, next |-> i + 2]
    ELSE NoField

IsLeap(y) == (y % 4 = 0 /\ y % 100 # 0) \/ y % 400 = 0

DaysInMonth(m, y) ==
    IF m = 2 THEN (IF IsLeap(y) THEN 29 ELSE 28)
    ELSE IF m \in {4, 6, 9, 11} THEN 30 ELSE 31

\* the datetime constructor accepts the fields
ValidYMD(y, m, d) == y >= 1 /\ m \in 1..12 /\ d >= 1 /\ d <= DaysInMonth(m, y)

NoDate == [ok |-> FALSE, y |-> 0, m |-> 0, d |-> 0, h |-> 0, mi |-> 0, pm |-> 0]

\* datetime.strptime(s, "%d-%m-%Y"): ok is FALSE where it raises ValueError
StrpDate(s) ==
    LET d  == FieldDay(s, 1)
        l1 == FieldLit(s, d.next, "-")
        m  == FieldMonth(s, l1.next)
        l2 == FieldLit(s, m.next, "-")
        y  == FieldYear(s, l2.next)
    IN  IF /\ d.ok /\ l1.ok /\ m.ok /\ l2.ok /\ y.ok
           /\ y.next = Len(s) + 1
           /\ ValidYMD(y.val, m.val, d.val)
        THEN [ok |-> TRUE, y |-> y.val, m |-> m.val, d |-> d.val,
              h |-> 0, mi |-> 0, pm |-> 0]
        ELSE NoDate

\* datetime.strptime(s, "%d-%m-%Y | %I:%M %p")
StrpDateTime(s) ==
    LET d  == FieldDay(s, 1)
        l1 == FieldLit(s, d.next, "-")
        m  == FieldMonth(s, l1.next)
        l2 == FieldLit(s, m.next, "-")
        y  == FieldYear(s, l2.next)
        s1 == FieldSpaces(s, y.next)
        b  == FieldLit(s, s1.next, "|")
        s2 == FieldSpaces(s, b.next)
        h  == FieldMonth(s, s2.next)
        c  == FieldLit(s, h.next, ":")
        mi == FieldMinute(s, c.next)
        s3 == FieldSpaces(s, mi.next)
        p  == FieldAmPm(s, s3.next)
    IN  IF /\ d.ok /\ l1.ok /\ m.ok /\ l2.ok /\ y.ok /\ s1.ok /\ b.ok /\ s2.ok
           /\ h.ok /\ c.ok /\ mi.ok /\ s3.ok /\ p.ok
           /\ p.next = Len(s) + 1
           /\ ValidYMD(y.val, m.val, d.val)
        THEN [ok |-> TRUE, y |-> y.val, m |-> m.val, d |-> d.val,
              h |-> h.val, mi |-> mi.val, pm |-> p.val]
        ELSE NoDate

\* a number as two digits, zero padded
Pad2(n) == <<Digits[(n \div 10) + 1], Digits[(n % 10) + 1]>>

\* %Y of strftime (four digits for the years 1000..9999)
Pad4(n) == Pad2(n \div 100) \o Pad2(n % 100)

\* dt.strftime("%d-%m-%Y %I:%M %p")
StrfDateTime(dt) ==
    Pad2(dt.d) \o <<"-">> \o Pad2(dt.m) \o <<"-">> \o Pad4(dt.y) \o <<" ">>
    \o Pad2(dt.h) \o <<":">> \o Pad2(dt.mi) \o <<" ">>
    \o (IF dt.pm = 0 THEN <<"A","M">> ELSE <<"P","M">>)

\* datetime >= datetime, both at midnight
DateGE(a, b) ==
    \/ a.y > b.y
    \/ a.y = b.y /\ a.m > b.m
    \/ a.y = b.y /\ a.m = b.m /\ a.d >= b.d

\* validate_date(date_str): strptime raising ValueError or TypeError is False
validate_date(s) == IsStr(s) /\ StrpDate(s).ok

\* ------------------------------------------------------------------------
\* parse_article (src/utils.py)
\* ------------------------------------------------------------------------

TitleMarker == <<"T","i","t","l","e",":">>
DateMarker == <<"D","a","t","e",":">>
LinkMarker == <<"L","i","n","k",":">>
ContentMarker == <<"C","o","n","t","e","n","t",":">>

NoTitle == <<"N","o"," ","T","i","t","l","e">>
NoDateText == <<"N","o"," ","D","a","t","e">>
NoLink == <<"#">>
ErrorTitle ==
    <<"E","r","r","o","r"," ","P","a","r","s","i","n","g"," ",
      "A","r","t","i","c","l","e">>

\* the line of 80 dashes that separates the articles of one file
Delimiter == [i \in 1..80 |-> "-"]

NoMatch == [found |-> FALSE, group |-> <<>>]

\* the lookahead (?=stop|$) holds before index q; $ also matches before a
\* final newline
LookaheadAt(s, q, stops) ==
    \/ q = Len(s) + 1
    \/ q = Len(s) /\ s[q] = "\n"
    \/ \E st \in stops : StartsAt(s, st, q)

\* re.search(marker + r"\s*(.+?)(?=stop|$)", s, re.DOTALL): the first
\* occurrence of the marker that has a character after it; \s* takes all the
\* whitespace it can while leaving one character for the group, and the lazy
\* group ends before the first place the lookahead holds
FieldSearch(s, marker, stops) ==
    LET i == Find(s, marker, 1)
        p == i + Len(marker)
    IN  IF i = 0 \/ p > Len(s) THEN NoMatch
        ELSE LET W == {j \in p..Len(s) : \A k \in p..j : IsSpace(s[k])}
                 afterWs == IF W = {} THEN p ELSE SetMax(W) + 1
                 g == IF afterWs > Len(s) THEN Len(s) ELSE afterWs
                 e == SetMin({q \in g..Len(s) : LookaheadAt(s, q + 1, stops)})
             IN  [found |-> TRUE, group |-> SubSeq(s, g, e)]

\* the date of an article as it is displayed: reformatted when it has the
\* form "%d-%m-%Y | %I:%M %p", verbatim otherwise
FormatDate(date_str) ==
    LET parsed_date == StrpDateTime(date_str)
    IN  IF parsed_date.ok THEN StrfDateTime(parsed_date) ELSE date_str

ErrorArticle(content) ==
    [title |-> ErrorTitle, date |-> NoDateText, link |-> NoLink,
     content |-> content, raw_content |-> content]

\* the try block of parse_article; content.split raises on a value that is
\* no str
ParseTry(content) ==
    IF ~IsStr(content) THEN [raised |-> TRUE, value |-> ErrorArticle(content)]
    ELSE
    LET sections == Split(content, Delimiter)
        section == Strip(sections[1])
        title_match == FieldSearch(section, TitleMarker, {DateMarker})
        date_match == FieldSearch(section, DateMarker, {LinkMarker})
        link_match == FieldSearch(section, LinkMarker, {ContentMarker})
        content_match == FieldSearch(section, ContentMarker, {})
        date_str == IF date_match.found THEN Strip(date_match.group) ELSE NoDateText
    IN  [raised |-> FALSE,
         value |->
           [title |-> IF title_match.found THEN Strip(title_match.group) ELSE NoTitle,
            date |-> FormatDate(date_str),
            link |-> IF link_match.found THEN Strip(link_match.group) ELSE NoLink,
            content |-> IF content_match.found THEN Strip(content_match.group)
                        ELSE content,
            raw_content |-> content]]

\* parse_article with the first section as the content fallback
parse_article_section(content) ==
    LET t == ParseTry(content)
    IN  IF t.raised THEN ErrorArticle(content)
        ELSE IF Contains(Strip(Split(content, Delimiter)[1]), ContentMarker)
        THEN t.value
        ELSE [t.value EXCEPT !.content = Strip(Split(content, Delimiter)[1])]

\* parse_article(content): the try block, and the error article where it raises
parse_article(content) ==
    LET t == ParseTry(content)
    IN  IF t.raised THEN ErrorArticle(content) ELSE t.value

\* ------------------------------------------------------------------------
\* search_articles (src/app.py)
\* ------------------------------------------------------------------------

\* get_file_content(url): the text of the response, "" when the request fails
get_file_content(body, ok) == IF ok THEN body ELSE <<>>

\* ten characters at g have the form \d{2}-\d{2}-\d{4}
DateShapeAt(s, g) ==
    /\ g + 9 <= Len(s)
    /\ \A k \in {0, 1, 3, 4, 6, 7, 8, 9} : IsDigit(s[g + k])
    /\ s[g + 2] = "-"
    /\ s[g + 5] = "-"

\* where the group starts when Date:\s*(\d{2}-\d{2}-\d{4}) matches at i, else 0
DateGroupAt(s, i) ==
    IF ~StartsAt(s, DateMarker, i) THEN 0
    ELSE LET p == i + Len(DateMarker)
             W == {j \in p..Len(s) : \A k \in p..j : IsSpace(s[k])}
             g == IF W = {} THEN p ELSE SetMax(W) + 1
         IN  IF DateShapeAt(s, g) THEN g ELSE 0

\* re.search(r"Date:\s*(\d{2}-\d{2}-\d{4})", s): group 1 of the first match,
\* None when there is none
DateSearch(s) ==
    LET I == {i \in 1..Len(s) : DateGroupAt(s, i) # 0}
    IN  IF I = {} THEN None
        ELSE LET g == DateGroupAt(s, SetMin(I)) IN SubSeq(s, g, g + 9)

\* the arrangements for r in 0..len(tags): range(0, len(tags) + 1), which adds
\* the empty tuple
AllCombinationsFromZero(tagList) ==
    LET n == Len(tagList)
        Arr(r) == {f \in [1..r -> 1..n] : \A a, b \in 1..r : a # b => f[a] # f[b]}
    IN  UNION {{[k \in 1..r |-> tagList[f[k]]] : f \in Arr(r)} : r \in 0..n}

\* itertools.permutations(tags, r) for r in 1..len(tags): the arrangements of
\* r positions of the list, as tuples of tags
AllCombinations(tagList) ==
    LET n == Len(tagList)
        Arr(r) == {f \in [1..r -> 1..n] : \A a, b \in 1..r : a # b => f[a] # f[b]}
    IN  UNION {{[k \in 1..r |-> tagList[f[k]]] : f \in Arr(r)} : r \in 1..n}

\* all(tag.lower() in content.lower() for tag in combo)
ComboPresent(combo, content) ==
    \A k \in 1..Len(combo) : Contains(Lower(content), Lower(combo[k]))

\* the loop over all_combinations with a test of the whole tag list only
FoundAll(tagList, content) ==
    /\ tagList # <<>>
    /\ ComboPresent(tagList, content)

\* the loop over all_combinations that sets found
Found(tagList, content) ==
    \E combo \in AllCombinations(tagList) : ComboPresent(combo, content)

\* article_date > query_date
DateFilterStrict(article_date, query_date) ==
    DateGE(article_date, query_date) /\ ~DateGE(query_date, article_date)

\* article_date >= query_date
DateFilterPasses(article_date, query_date) == DateGE(article_date, query_date)

\* the body of the try block for one file: raised where strptime raises on
\* the embedded date, hit where the article is appended
ProcessFile(content, tagList, dateArg) ==
    IF ~Found(tagList, content) THEN [raised |-> FALSE, hit |-> FALSE]
    ELSE LET article_date_match == DateSearch(content)
         IN  IF article_date_match = None THEN [raised |-> FALSE, hit |-> FALSE]
             ELSE LET article_date == StrpDate(article_date_match)
                  IN  IF ~article_date.ok THEN [raised |-> TRUE, hit |-> FALSE]
                      ELSE IF Truthy(dateArg) /\ validate_date(dateArg)
                      THEN [raised |-> FALSE,
                            hit |-> DateFilterPasses(article_date, StrpDate(dateArg))]
                      ELSE [raised |-> FALSE, hit |-> TRUE]

\* a handler that lets the exception leave the loop
OnFileErrorPropagate(i) == [pc |-> "raised", idx |-> i]

\* the except branch of the loop: log and continue with the next file
OnFileError(i) == [pc |-> "loop", idx |-> i + 1]


\* ------------------------------------------------------------------------
\* the inputs of a search
\* ------------------------------------------------------------------------

\* 'cricket'
Cricket == <<"c","r","i","c","k","e","t">>

\* 'matches'
Matches == <<"m","a","t","c","h","e","s">>

\* 'gujarat'
Gujarat == <<"g","u","j","a","r","a","t">>

\* 'CRICKET'
CricketUpper == <<"C","R","I","C","K","E","T">>

\* '31-02-2024'
DateImpossible == <<"3","1","-","0","2","-","2","0","2","4">>

\* '01-06-2024'
DateJune1 == <<"0","1","-","0","6","-","2","0","2","4">>

\* '1-6-2024'
DateJune1Short == <<"1","-","6","-","2","0","2","4">>

\* 'Title: A\nDate: 15-06-2024 | 09:30 AM\nLink: u\nContent: Cricket matches in Gujarat'
BodyAll ==
    <<"T","i","t","l","e",":"," ","A","\n","D","a","t","e",":"," ","1","5",
      "-","0","6","-","2","0","2","4"," ","|"," ","0","9",":","3","0"," ","A",
      "M","\n","L","i","n","k",":"," ","u","\n","C","o","n","t","e","n","t",
      ":"," ","C","r","i","c","k","e","t"," ","m","a","t","c","h","e","s"," ",
      "i","n"," ","G","u","j","a","r","a","t">>

\* 'Title: B\nDate: 15-06-2024\nContent: cricket in gujarat'
BodyTwo ==
    <<"T","i","t","l","e",":"," ","B","\n","D","a","t","e",":"," ","1","5",
      "-","0","6","-","2","0","2","4","\n","C","o","n","t","e","n","t",":",
      " ","c","r","i","c","k","e","t"," ","i","n"," ","g","u","j","a","r","a",
      "t">>

\* 'Title: C\nContent: cricket matches gujarat'
BodyUndated ==
    <<"T","i","t","l","e",":"," ","C","\n","C","o","n","t","e","n","t",":",
      " ","c","r","i","c","k","e","t"," ","m","a","t","c","h","e","s"," ","g",
      "u","j","a","r","a","t">>

\* 'Title: D\nDate: 20-01-2024\nContent: cricket matches gujarat'
BodyOld ==
    <<"T","i","t","l","e",":"," ","D","\n","D","a","t","e",":"," ","2","0",
      "-","0","1","-","2","0","2","4","\n","C","o","n","t","e","n","t",":",
      " ","c","r","i","c","k","e","t"," ","m","a","t","c","h","e","s"," ","g",
      "u","j","a","r","a","t">>

\* 'Title: E\nDate: 31-02-2024\nContent: cricket matches gujarat'
BodyBadDate ==
    <<"T","i","t","l","e",":"," ","E","\n","D","a","t","e",":"," ","3","1",
      "-","0","2","-","2","0","2","4","\n","C","o","n","t","e","n","t",":",
      " ","c","r","i","c","k","e","t"," ","m","a","t","c","h","e","s"," ","g",
      "u","j","a","r","a","t">>

\* 'Date: 01-06-2024 | 12:05 PM\nContent: GUJARAT'
BodySameDay ==
    <<"D","a","t","e",":"," ","0","1","-","0","6","-","2","0","2","4"," ","|",
      " ","1","2",":","0","5"," ","P","M","\n","C","o","n","t","e","n","t",
      ":"," ","G","U","J","A","R","A","T">>

\* 'Title: G\nDate:20-06-2024\nLink: v\nContent: football'
BodyOther ==
    <<"T","i","t","l","e",":"," ","G","\n","D","a","t","e",":","2","0","-",
      "0","6","-","2","0","2","4","\n","L","i","n","k",":"," ","v","\n","C",
      "o","n","t","e","n","t",":"," ","f","o","o","t","b","a","l","l">>

Bodies == {BodyAll, BodyTwo, BodyUndated, BodyOld, BodyBadDate, BodySameDay,
           BodyOther}

TagLists == {<<>>, <<Gujarat, Gujarat>>, <<Cricket, Gujarat>>,
             <<CricketUpper, Matches, Gujarat>>}

DateArgs == {None, <<>>, DateImpossible, DateJune1, DateJune1Short}

\* the most files a corpus holds
MaxFiles == 2

\* the corpora: up to MaxFiles files of different text, in any order
Corpora ==
    UNION {{fs \in [1..n -> Bodies] : \A a, b \in 1..n : a # b => fs[a] # fs[b]} :
           n \in 0..MaxFiles}

ParseIdle == pin = None /\ pout = ErrorArticle(None) /\ ppc = "idle"

InitSearch ==
    /\ tags \in TagLists
    /\ date \in DateArgs
    /\ files \in Corpora
    /\ idx = 1
    /\ results = <<>>
    /\ picked = <<>>
    /\ failed = {}
    /\ raisedAt = {}
    /\ spc = "loop"

\* one iteration of the loop over the files: fetch, match, append
SearchFile ==
    /\ spc = "loop"
    /\ idx <= Len(files)
    /\ \E ok \in BOOLEAN :
         LET content == get_file_content(files[idx], ok)
             r == ProcessFile(content, tags, date)
         IN  /\ failed' = IF ok THEN failed ELSE failed \cup {idx}
             /\ IF r.raised
                THEN /\ spc' = OnFileError(idx).pc
                     /\ idx' = OnFileError(idx).idx
                     /\ raisedAt' = raisedAt \cup {idx}
                     /\ UNCHANGED <<results, picked>>
                ELSE /\ results' = IF r.hit THEN Append(results, parse_article(content))
                                   ELSE results
                     /\ picked' = IF r.hit THEN Append(picked, idx) ELSE picked
                     /\ idx' = idx + 1
                     /\ UNCHANGED <<spc, raisedAt>>
    /\ UNCHANGED <<tags, date, files, parseVars, interpVars, formatVars, cacheVars,
                   highlightVars>>

\* return results
SearchReturn ==
    /\ spc = "loop"
    /\ idx > Len(files)
    /\ spc' = "done"
    /\ UNCHANGED <<tags, date, files, idx, results, picked, failed, raisedAt,
                   parseVars, interpVars, formatVars, cacheVars,
                   highlightVars>>

InterpIdle ==
    /\ query = <<>> /\ source_lang = "en" /\ query_en = <<>>
    /\ reply = [text |-> None, form |-> "none", items |-> <<>>, date |-> "none"]
    /\ response = None /\ itags = <<>> /\ idate = None /\ ipc = "idle"

FormatIdle ==
    /\ fresults = <<>> /\ farticle = ErrorArticle(None) /\ ftags = <<>>
    /\ target_lang = "en" /\ formatted_results = <<>> /\ fidx = 1
    /\ fout = ErrorArticle(None) /\ translations = 0 /\ fpc = "idle"

CacheIdle ==
    /\ now = 0 /\ up = <<>> /\ cache = <<>> /\ ncalls = 0 /\ lastCall = <<>>
    /\ withCache = None /\ withoutCache = None

HighlightIdle ==
    /\ current_tags = <<>> /\ hcontent = <<>> /\ legend_html = <<>>
    /\ highlighted_content = <<>> /\ tidx = 1 /\ hpc = "idle"

Init ==
    InitSearch /\ ParseIdle /\ InterpIdle /\ FormatIdle /\ CacheIdle /\ HighlightIdle

Next == SearchFile \/ SearchReturn

Spec == Init /\ [][Next]_vars

\* ------------------------------------------------------------------------
\* search_articles: the claims
\* ------------------------------------------------------------------------

\* the file at position i was appended to the results
Included(i) == \E j \in 1..Len(picked) : picked[j] = i

\* every tag is a case-insensitive substring of the raw text of file i
AllTagsPresent(i) ==
    \A k \in 1..Len(tags) : Contains(Lower(files[i]), Lower(tags[k]))

\* at least one tag is a case-insensitive substring of the raw text of file i
SomeTagPresent(i) ==
    \E k \in 1..Len(tags) : Contains(Lower(files[i]), Lower(tags[k]))

TwoDistinctTags == Cardinality({tags[k] : k \in 1..Len(tags)}) >= 2

\* the date argument is a date filter
ValidFilter == date # None /\ date # <<>> /\ validate_date(date)

\* days since a fixed origin in a calendar of 31-day months: it orders dates
\* as the calendar does
DayNumber(y, m, d) == (y * 12 + m) * 31 + d

\* the first Date: DD-MM-YYYY of file i, read digit by digit
EmbeddedDate(i) ==
    LET g == DateSearch(files[i])
    IN  IF g = None THEN [ok |-> FALSE, n |-> 0]
        ELSE LET d == NumAt(g, 1)
                 m == NumAt(g, 4)
                 y == 100 * NumAt(g, 7) + NumAt(g, 9)
             IN  [ok |-> ValidYMD(y, m, d), n |-> DayNumber(y, m, d)]

QueryDayNumber ==
    LET q == StrpDate(date) IN DayNumber(q.y, q.m, q.d)

PassesFilter(i) ==
    /\ EmbeddedDate(i).ok
    /\ ValidFilter => EmbeddedDate(i).n >= QueryDayNumber

\* C1 as stated: with at least two distinct tags, a file is included only if
\* every tag occurs in its text, so a file with some but not all of the tags
\* is excluded.
C1_ConjunctiveMatch ==
    (spc = "done" /\ TwoDistinctTags) =>
        \A i \in 1..Len(files) : Included(i) => AllTagsPresent(i)

\* C1 amended: a file is included only if at least one tag occurs in its
\* text, and a fetched file with some but not all of the tags whose embedded
\* date parses and passes the date filter is included.
C1_DisjunctiveMatch ==
    spc = "done" =>
        \A i \in 1..Len(files) :
            /\ Included(i) => SomeTagPresent(i)
            /\ (/\ SomeTagPresent(i)
                /\ ~AllTagsPresent(i)
                /\ i \notin failed
                /\ PassesFilter(i)) => Included(i)

C1_Witness ==
    /\ spc = "done"
    /\ TwoDistinctTags
    /\ \E i, j \in 1..Len(files) :
         /\ Included(i) /\ AllTagsPresent(i)
         /\ Included(j) /\ SomeTagPresent(j) /\ ~AllTagsPresent(j)

\* C2 as stated: without a valid date filter every fetched file that holds
\* the tags is included, whatever its Date: field holds and whether it has one.
C2_NoFilterIncludesAll ==
    (spc = "done" /\ ~ValidFilter) =>
        \A i \in 1..Len(files) :
            (tags # <<>> /\ AllTagsPresent(i) /\ i \notin failed) => Included(i)

\* C3: with a valid date filter, a fetched tag-matching file is included if and
\* only if its embedded date is a calendar date on or after the query date.
C3_DateFloor ==
    (spc = "done" /\ ValidFilter) =>
        \A i \in 1..Len(files) :
            (i \notin failed /\ SomeTagPresent(i)) =>
                (Included(i) <=>
                    (EmbeddedDate(i).ok /\ EmbeddedDate(i).n >= QueryDayNumber))

C3_Witness ==
    /\ spc = "done"
    /\ ValidFilter
    /\ \E i, j \in 1..Len(files) :
         /\ Included(i) /\ EmbeddedDate(i).n = QueryDayNumber
         /\ ~Included(j) /\ j \notin failed /\ SomeTagPresent(j)
         /\ EmbeddedDate(j).ok /\ EmbeddedDate(j).n < QueryDayNumber

\* the files whose fetch failed or whose processing raised
BadFiles == failed \cup raisedAt

\* the corpus without the files at the positions in bad
RECURSIVE Without(_, _, _)
Without(fs, bad, i) ==
    IF i > Len(fs) THEN <<>>
    ELSE (IF i \in bad THEN <<>> ELSE <<fs[i]>>) \o Without(fs, bad, i + 1)

\* what the search returns on a corpus where every fetch succeeds
RECURSIVE SearchOf(_)
SearchOf(fs) ==
    IF fs = <<>> THEN <<>>
    ELSE (IF ProcessFile(Head(fs), tags, date).hit
          THEN <<parse_article(Head(fs))>> ELSE <<>>) \o SearchOf(Tail(fs))

\* C4: a file whose fetch fails or whose processing raises never aborts the
\* search, and the result is the result for the corpus without those files,
\* in corpus order.
C4_BadFileSkipped ==
    /\ spc \in {"loop", "done"}
    /\ spc = "done" =>
         /\ idx = Len(files) + 1
         /\ results = SearchOf(Without(files, BadFiles, 1))

C4_Witness ==
    /\ spc = "done"
    /\ \E i \in raisedAt : \E j \in 1..Len(picked) : picked[j] > i

\* the file at position i was fetched and holds a calendar date: a listing
\* without a tag filter and without a date filter would include it
Listable(i) ==
    /\ i \notin failed
    /\ EmbeddedDate(i).ok

\* C12: with an empty tag list search_articles returns the empty list, for
\* every corpus and every date argument: no file is ever appended.
C12_EmptyTagsMatchNothing ==
    tags = <<>> => results = <<>> /\ picked = <<>>

C12_Witness ==
    /\ tags = <<>>
    /\ spc = "done"
    /\ ~ValidFilter
    /\ \A i \in 1..Len(files) : Listable(i)
    /\ Len(files) = MaxFiles

\* ------------------------------------------------------------------------
\* parse_article on its own: the inputs and the call
\* ------------------------------------------------------------------------

\* 'Title: Rain in Surat\n'
TitleLine ==
    <<"T","i","t","l","e",":"," ","R","a","i","n"," ","i","n"," ","S","u","r",
      "a","t","\n">>

\* 'Title: Rain\nagain \n'
TitleTwoLines ==
    <<"T","i","t","l","e",":"," ","R","a","i","n","\n","a","g","a","i","n",
      " ","\n">>

\* 'Date: 15-03-2024 | 09:30 AM\n'
DateLineStamp ==
    <<"D","a","t","e",":"," ","1","5","-","0","3","-","2","0","2","4"," ","|",
      " ","0","9",":","3","0"," ","A","M","\n">>

\* 'Date: not a date\n'
DateLineWords ==
    <<"D","a","t","e",":"," ","n","o","t"," ","a"," ","d","a","t","e","\n">>

\* 'Link: http://x/1\n'
LinkLine ==
    <<"L","i","n","k",":"," ","h","t","t","p",":","/","/","x","/","1","\n">>

\* 'Content: Heavy rain.\nMore rain. \n'
ContentLine ==
    <<"C","o","n","t","e","n","t",":"," ","H","e","a","v","y"," ","r","a","i",
      "n",".","\n","M","o","r","e"," ","r","a","i","n","."," ","\n">>

\* '\nTitle: Z\nDate: 01-01-2020 | 1:5 pm\nLink: w\nContent: second'
SecondArticle ==
    <<"\n","T","i","t","l","e",":"," ","Z","\n","D","a","t","e",":"," ","0",
      "1","-","0","1","-","2","0","2","0"," ","|"," ","1",":","5"," ","p","m",
      "\n","L","i","n","k",":"," ","w","\n","C","o","n","t","e","n","t",":",
      " ","s","e","c","o","n","d">>

\* the texts parse_article is given: each labelled field present or absent,
\* with or without a second article after the delimiter line; and None
ParseInputs ==
    {t \o d \o l \o c \o x :
        t \in {<<>>, TitleLine, TitleTwoLines},
        d \in {<<>>, DateLineStamp, DateLineWords},
        l \in {<<>>, LinkLine},
        c \in {<<>>, ContentLine},
        x \in {<<>>, Delimiter \o SecondArticle}} \cup {None}

SearchIdle ==
    /\ tags = <<>> /\ date = None /\ files = <<>> /\ idx = 1 /\ results = <<>>
    /\ picked = <<>> /\ failed = {} /\ raisedAt = {} /\ spc = "idle"

InitParse ==
    /\ pin \in ParseInputs
    /\ pout = ErrorArticle(None)
    /\ ppc = "start"
    /\ SearchIdle
    /\ InterpIdle
    /\ FormatIdle
    /\ CacheIdle
    /\ HighlightIdle

\* result = parse_article(content)
ParseCall ==
    /\ ppc = "start"
    /\ pout' = parse_article(pin)
    /\ ppc' = "done"
    /\ UNCHANGED <<pin, searchVars, interpVars, formatVars, cacheVars,
                   highlightVars>>

NextParse == ParseCall

SpecParse == InitParse /\ [][NextParse]_vars

\* the first article of the text: what precedes the first delimiter line
FirstBlock(s) ==
    LET i == Find(s, Delimiter, 1)
    IN  IF i = 0 THEN s ELSE SubSeq(s, 1, i - 1)

\* the labelled field is missing from the first article
Missing(marker) == ~Contains(FirstBlock(pin), marker)

\* C8: parse_article always returns an article; a missing Title, Date or Link
\* gives "No Title", "No Date" or "#"; a missing Content: marker gives the
\* whole input as content; and for an input it cannot process (one that is no
\* string) the article holds the sentinels "Error Parsing Article", "No Date"
\* and "#" with the input as content.
C8_ParseTotalSentinels ==
    /\ ppc \in {"start", "done"}
    /\ ppc = "done" =>
         /\ DOMAIN pout = {"title", "date", "link", "content", "raw_content"}
         /\ pout.raw_content = pin
         /\ IsStr(pin) =>
              /\ Missing(TitleMarker) => pout.title = NoTitle
              /\ Missing(DateMarker) => pout.date = NoDateText
              /\ Missing(LinkMarker) => pout.link = NoLink
              /\ Missing(ContentMarker) => pout.content = pin
         /\ ~IsStr(pin) =>
              /\ pout.title = ErrorTitle
              /\ pout.date = NoDateText
              /\ pout.link = NoLink
              /\ pout.content = pin

C8_Witness ==
    /\ ppc = "done"
    /\ IsStr(pin)
    /\ Find(pin, Delimiter, 1) # 0
    /\ Missing(TitleMarker) /\ Missing(ContentMarker)
    /\ ~Missing(DateMarker) /\ ~Missing(LinkMarker)
    /\ pout.title = NoTitle /\ pout.content = pin


\* ------------------------------------------------------------------------
\* translate_text, detect_language (src/translate_utils.py)
\* ------------------------------------------------------------------------

\* the code points of the Gujarati block this model writes
GujaratiChars == {"u0A95", "u0AB0", "u0AB8", "u0AAE"}

\* '઀' <= c <= '૿'
IsGujarati(c) == c \in GujaratiChars

\* detect_language(text): more than 30% of the characters are Gujarati
detect_language(text) ==
    LET gujarati_chars == Cardinality({i \in 1..Len(text) : IsGujarati(text[i])})
    IN  IF 10 * gujarati_chars > 3 * Len(text) THEN "gu" ELSE "en"

\* 'ક્રિકેટ સમાચાર' as the model writes it
QueryGu == <<"u0A95", "u0AB0", " ", "u0AB8", "u0AAE">>

\* 'cricket news'
QueryEn ==
    <<"c","r","i","c","k","e","t"," ","n","e","w","s">>

\* GoogleTranslator(source, target).translate(text): the service's answer, a
\* fixed dictionary here; a text it does not know comes back as it is
GoogleTranslate(text, source, target) ==
    IF source = "gu" /\ target = "en" /\ text = QueryGu THEN QueryEn
    ELSE IF source = "en" /\ target = "gu" /\ text = QueryEn THEN QueryGu
    ELSE text

\* translate_text(text, source_lang, target_lang); ok: the service answers
translate_text(text, source, target, ok) ==
    IF text = <<>> \/ text = None \/ source = target THEN text
    ELSE IF ok THEN GoogleTranslate(text, source, target)
    ELSE text

\* ------------------------------------------------------------------------
\* query_mixtral, translate_query_and_extract (src/app.py),
\* parse_mixtral_response (src/utils.py)
\* ------------------------------------------------------------------------

\* 'tags:'
TagsMarker ==
    <<"t","a","g","s",":">>

\* where an occurrence of "Tags:" (any case) at i is followed by \s*\[(.*?)\]:
\* the positions of the brackets, <<0, 0>> if it is not
TagsGroupAt(s, i) ==
    IF ~StartsAt(Lower(s), TagsMarker, i) THEN <<0, 0>>
    ELSE LET p == i + Len(TagsMarker)
             W == {j \in p..Len(s) : \A k \in p..j : IsSpace(s[k])}
             g == IF W = {} THEN p ELSE SetMax(W) + 1
         IN  IF g > Len(s) \/ s[g] # "[" THEN <<0, 0>>
             ELSE LET C == {c \in (g + 1)..Len(s) :
                              /\ s[c] = "]"
                              /\ \A k \in (g + 1)..(c - 1) : s[k] # "\n"}
                  IN  IF C = {} THEN <<0, 0>> ELSE <<g, SetMin(C)>>

\* re.search(r"Tags:\s*\[(.*?)\]", s, re.IGNORECASE): group 1 of the first
\* match
TagsSearch(s) ==
    LET I == {i \in 1..Len(s) : TagsGroupAt(s, i) # <<0, 0>>}
    IN  IF I = {} THEN NoMatch
        ELSE LET b == TagsGroupAt(s, SetMin(I))
             IN  [found |-> TRUE, group |-> SubSeq(s, b[1] + 1, b[2] - 1)]

\* the list comprehension without .lower()
RECURSIVE CleanTagsKeepCase(_)
CleanTagsKeepCase(parts) ==
    IF parts = <<>> THEN <<>>
    ELSE (IF Strip(Head(parts)) # <<>> THEN <<Strip(Head(parts))>> ELSE <<>>)
         \o CleanTagsKeepCase(Tail(parts))

\* [tag.strip().lower() for tag in parts if tag.strip()]
RECURSIVE CleanTags(_)
CleanTags(parts) ==
    IF parts = <<>> THEN <<>>
    ELSE (IF Strip(Head(parts)) # <<>> THEN <<Lower(Strip(Head(parts)))>> ELSE <<>>)
         \o CleanTags(Tail(parts))

\* the tags of a reply
ExtractTags(resp) ==
    LET tags_match == TagsSearch(resp)
    IN  IF tags_match.found THEN CleanTags(Split(tags_match.group, <<",">>))
        ELSE <<>>

\* the date of a reply: the first Date: DD-MM-YYYY, if validate_date accepts it
ExtractDate(resp) ==
    LET date_match == DateSearch(resp)
    IN  IF date_match # None /\ validate_date(date_match) THEN date_match ELSE None

\* parse_mixtral_response(response): re.search raises on a value that is no
\* str, and the except branch returns ([], None)
parse_mixtral_response(resp) ==
    IF ~IsStr(resp) THEN [tags |-> <<>>, date |-> None]
    ELSE [tags |-> ExtractTags(resp), date |-> ExtractDate(resp)]

\* query_mixtral without its try/except
query_mixtral_uncaught(ok, text) ==
    [raised |-> ~ok, value |-> IF ok THEN text ELSE None]

\* query_mixtral(prompt): the generated text, None when the request raises
query_mixtral(ok, text) ==
    [raised |-> FALSE, value |-> IF ok THEN text ELSE None]

\* ------------------------------------------------------------------------
\* the inputs of a query interpretation
\* ------------------------------------------------------------------------

\* 'Sure! '
ReplyPreamble ==
    <<"S","u","r","e","!"," ">>

\* 'Cricket'
ItemCricket ==
    <<"C","r","i","c","k","e","t">>

\* ' rain '
ItemRain ==
    <<" ","r","a","i","n"," ">>

\* 'Surat'
ItemSurat ==
    <<"S","u","r","a","t">>

\* '  '
ItemBlank ==
    <<" "," ">>

\* 'a'
ItemLowerA ==
    <<"a">>

\* 'A'
ItemUpperA ==
    <<"A">>

\* 'Tags: ['
TagsOpen ==
    <<"T","a","g","s",":"," ","[">>

\* 'tags:['
TagsOpenLower ==
    <<"t","a","g","s",":","[">>

\* 'Tags: '
TagsBare ==
    <<"T","a","g","s",":"," ">>

\* '\nDate: 01-06-2024'
DateLineJune1 ==
    <<"\n","D","a","t","e",":"," ","0","1","-","0","6","-","2","0","2","4">>

\* '\nDate: 31-02-2024'
DateLineImpossible ==
    <<"\n","D","a","t","e",":"," ","3","1","-","0","2","-","2","0","2","4">>

\* '\ndate: 01-06-2024'
DateLineLower ==
    <<"\n","d","a","t","e",":"," ","0","1","-","0","6","-","2","0","2","4">>

\* '\nDate: 1-6-2024'
DateLineShort ==
    <<"\n","D","a","t","e",":"," ","1","-","6","-","2","0","2","4">>

\* the items the language model lists
ItemLists == {<<>>, <<ItemCricket>>, <<ItemRain, <<>>, ItemSurat>>,
              <<ItemLowerA, ItemBlank, ItemUpperA>>}

\* items joined with commas
RECURSIVE Join(_)
Join(items) ==
    IF items = <<>> THEN <<>>
    ELSE IF Len(items) = 1 THEN Head(items)
    ELSE Head(items) \o <<",">> \o Join(Tail(items))

\* the tags part of a reply in each form
TagsPart(form, items) ==
    IF form = "list" THEN TagsOpen \o Join(items) \o <<"]">>
    ELSE IF form = "lowercase" THEN TagsOpenLower \o Join(items) \o <<"]">>
    ELSE IF form = "bare" THEN TagsBare \o Join(items)
    ELSE <<>>

\* the date line of a reply in each form
DatePart(form) ==
    IF form = "valid" THEN DateLineJune1
    ELSE IF form = "impossible" THEN DateLineImpossible
    ELSE IF form = "lowercase" THEN DateLineLower
    ELSE IF form = "short" THEN DateLineShort
    ELSE <<>>

\* the replies of the language model: what it wrote, and the text
Replies ==
    {[text |-> pre \o TagsPart(f, it) \o DatePart(d), form |-> f, items |-> it,
      date |-> d] :
        pre \in {<<>>, ReplyPreamble},
        f \in {"list", "lowercase", "bare"},
        it \in ItemLists,
        d \in {"none", "valid", "impossible", "lowercase", "short"}}
    \cup {[text |-> <<>>, form |-> "none", items |-> <<>>, date |-> "none"],
          [text |-> ReplyPreamble, form |-> "none", items |-> <<>>, date |-> "none"]}

InitInterp ==
    /\ query \in {QueryEn, QueryGu}
    /\ source_lang \in {"en", "gu"}
    /\ query_en = <<>>
    /\ reply = [text |-> None, form |-> "none", items |-> <<>>, date |-> "none"]
    /\ response = None
    /\ itags = <<>>
    /\ idate = None
    /\ ipc = "start"
    /\ SearchIdle
    /\ ParseIdle
    /\ FormatIdle
    /\ CacheIdle
    /\ HighlightIdle

\* lines 47-50: the query in English
TranslateQuery ==
    /\ ipc = "start"
    /\ \E ok \in BOOLEAN :
         query_en' = IF source_lang = "gu" THEN translate_text(query, "gu", "en", ok)
                     ELSE query
    /\ ipc' = "ask"
    /\ UNCHANGED <<query, source_lang, reply, response, itags, idate>>
    /\ UNCHANGED <<searchVars, parseVars, formatVars, cacheVars,
                   highlightVars>>

\* line 65: response = query_mixtral(prompt); the service fails or replies
AskModel ==
    /\ ipc = "ask"
    /\ \/ \E r \in Replies :
            LET q == query_mixtral(TRUE, r.text)
            IN  /\ reply' = r
                /\ response' = q.value
                /\ ipc' = IF q.raised THEN "raised" ELSE "parse"
       \/ LET q == query_mixtral(FALSE, None)
          IN  /\ reply' = reply
              /\ response' = q.value
              /\ ipc' = IF q.raised THEN "raised" ELSE "parse"
    /\ UNCHANGED <<query, source_lang, query_en, itags, idate>>
    /\ UNCHANGED <<searchVars, parseVars, formatVars, cacheVars,
                   highlightVars>>

\* lines 66-68: parse a reply, or return ([], None)
ExtractReturn ==
    /\ ipc = "parse"
    /\ LET r == IF Truthy(response) THEN parse_mixtral_response(response)
                ELSE [tags |-> <<>>, date |-> None]
       IN  /\ itags' = r.tags
           /\ idate' = r.date
    /\ ipc' = "done"
    /\ UNCHANGED <<query, source_lang, query_en, reply, response>>
    /\ UNCHANGED <<searchVars, parseVars, formatVars, cacheVars,
                   highlightVars>>

NextInterp == TranslateQuery \/ AskModel \/ ExtractReturn

SpecInterpret == InitInterp /\ [][NextInterp]_vars


\* ------------------------------------------------------------------------
\* translate_query_and_extract, parse_mixtral_response: the claims
\* ------------------------------------------------------------------------

\* the reply holds no Tags: [...] list and no Date: line with a calendar date
NothingToParse == reply.form \in {"none", "bare"} /\ reply.date # "valid"

\* C6: translate_query_and_extract never raises, and returns ([], None) when
\* the model call fails, the reply is empty, or the reply holds no parseable
\* Tags: [...] and no valid Date: line.
C6_DegradesToEmpty ==
    /\ ipc # "raised"
    /\ (ipc = "done" /\ (response = None \/ response = <<>> \/ NothingToParse)) =>
         (itags = <<>> /\ idate = None)

C6_Witness ==
    /\ ipc = "done"
    /\ response # None /\ response # <<>>
    /\ reply.form = "bare" /\ reply.items # <<>> /\ reply.date = "impossible"
    /\ itags = <<>> /\ idate = None

\* an item with a character that is no whitespace
NonBlank(item) == \E i \in 1..Len(item) : ~IsSpace(item[i])

\* the items the reply lists, blank ones dropped, each trimmed and in lower
\* case, in the order of the list
RECURSIVE ListedTags(_)
ListedTags(items) ==
    IF items = <<>> THEN <<>>
    ELSE (IF NonBlank(Head(items)) THEN <<Lower(Strip(Head(items)))>> ELSE <<>>)
         \o ListedTags(Tail(items))

\* ten characters DD-MM-YYYY that name a day of the calendar
CalendarDate(s) ==
    /\ Len(s) = 10
    /\ DateShapeAt(s, 1)
    /\ ValidYMD(100 * NumAt(s, 7) + NumAt(s, 9), NumAt(s, 4), NumAt(s, 1))

WellFormedTag(t) ==
    /\ t # <<>>
    /\ ~IsSpace(t[1]) /\ ~IsSpace(t[Len(t)])
    /\ \A i \in 1..Len(t) : \A u \in 1..Len(UpperLetters) : t[i] # UpperLetters[u]

\* C10: every tag parse_mixtral_response returns is non-empty, trimmed and
\* lower case, the tags are the reply's list in its order with duplicates
\* kept, and the date is None or a calendar date DD-MM-YYYY.
C10_WellFormedResult ==
    ipc = "done" =>
        /\ \A k \in 1..Len(itags) : WellFormedTag(itags[k])
        /\ (Truthy(response) /\ reply.form \in {"list", "lowercase"}) =>
              itags = ListedTags(reply.items)
        /\ idate = None \/ CalendarDate(idate)

C10_Witness ==
    /\ ipc = "done"
    /\ reply.form = "list"
    /\ reply.items = <<ItemLowerA, ItemBlank, ItemUpperA>>
    /\ itags = <<ItemLowerA, ItemLowerA>>
    /\ idate = DateJune1


\* ------------------------------------------------------------------------
\* highlight_matching_text (src/translate_utils.py)
\* ------------------------------------------------------------------------

\* '<span style="background-color: '
SpanOpenA ==
    <<"<","s","p","a","n"," ","s","t","y","l","e","=","\"","b","a","c","k",
      "g","r","o","u","n","d","-","c","o","l","o","r",":"," ">>

\* '; padding: 0 2px; border-radius: 3px;">'
SpanOpenB ==
    <<";"," ","p","a","d","d","i","n","g",":"," ","0"," ","2","p","x",";"," ",
      "b","o","r","d","e","r","-","r","a","d","i","u","s",":"," ","3","p","x",
      ";","\"",">">>

\* '</span>'
SpanClose ==
    <<"<","/","s","p","a","n",">">>

\* '#FFE082'
ColorPrimary ==
    <<"#","F","F","E","0","8","2">>

\* '#A5D6A7'
ColorSecondary ==
    <<"#","A","5","D","6","A","7">>

\* '#90CAF9'
ColorTertiary ==
    <<"#","9","0","C","A","F","9">>

\* '#F48FB1'
ColorQuaternary ==
    <<"#","F","4","8","F","B","1">>

\* '#B39DDB'
ColorEmphasis ==
    <<"#","B","3","9","D","D","B">>

\* list(Config.HIGHLIGHT_COLORS.values())
HighlightColors ==
    <<ColorPrimary, ColorSecondary, ColorTertiary, ColorQuaternary, ColorEmphasis>>

\* the replacement of one match
Span(color, matched) == SpanOpenA \o color \o SpanOpenB \o matched \o SpanClose

\* pattern.sub(...) with re.IGNORECASE from index from on: every match of the
\* term, leftmost first and not overlapping, wrapped in a span
RECURSIVE SubAll(_, _, _, _)
SubAll(s, term, color, from) ==
    LET i == Find(Lower(s), Lower(term), from)
    IN  IF i = 0 THEN SubSeq(s, from, Len(s))
        ELSE SubSeq(s, from, i - 1)
             \o Span(color, SubSeq(s, i, i + Len(term) - 1))
             \o SubAll(s, term, color, i + Len(term))

\* colors[idx % len(colors)] in highlight_matching_text
HighlightColor(i) == HighlightColors[(i % Len(HighlightColors)) + 1]

\* one iteration of the loop of highlight_matching_text, for the term at
\* Python's idx i
HighlightIteration(content, term, i) ==
    IF Strip(term) = <<>> THEN content
    ELSE SubAll(content, term, HighlightColor(i), 1)

\* the loop of highlight_matching_text from the term at position k (1-based;
\* Python's idx is k - 1)
RECURSIVE HighlightFrom(_, _, _)
HighlightFrom(content, search_terms, k) ==
    IF k > Len(search_terms) THEN content
    ELSE HighlightFrom(HighlightIteration(content, search_terms[k], k - 1),
                       search_terms, k + 1)

\* highlight_matching_text(content, search_terms), case_sensitive False as at
\* every call
highlight_matching_text(content, search_terms) ==
    HighlightFrom(content, search_terms, 1)

\* ------------------------------------------------------------------------
\* get_color_legend and the loops of both functions, one iteration a step
\* ------------------------------------------------------------------------

\* "<div style='margin: 10px 0; padding: 10px; border: 1px solid #ddd; border-radius: 5px;'>"
LegendOpen ==
    <<"<","d","i","v"," ","s","t","y","l","e","=","'","m","a","r","g","i","n",
      ":"," ","1","0","p","x"," ","0",";"," ","p","a","d","d","i","n","g",":",
      " ","1","0","p","x",";"," ","b","o","r","d","e","r",":"," ","1","p","x",
      " ","s","o","l","i","d"," ","#","d","d","d",";"," ","b","o","r","d","e",
      "r","-","r","a","d","i","u","s",":"," ","5","p","x",";","'",">">>

\* "<p style='margin: 0 0 5px 0;'><strong>Search Terms:</strong></p>"
LegendHeader ==
    <<"<","p"," ","s","t","y","l","e","=","'","m","a","r","g","i","n",":"," ",
      "0"," ","0"," ","5","p","x"," ","0",";","'",">","<","s","t","r","o","n",
      "g",">","S","e","a","r","c","h"," ","T","e","r","m","s",":","<","/","s",
      "t","r","o","n","g",">","<","/","p",">">>

\* "<span style='margin-right: 10px; background-color: "
LegendSpanA ==
    <<"<","s","p","a","n"," ","s","t","y","l","e","=","'","m","a","r","g","i",
      "n","-","r","i","g","h","t",":"," ","1","0","p","x",";"," ","b","a","c",
      "k","g","r","o","u","n","d","-","c","o","l","o","r",":"," ">>

\* "; padding: 2px 5px; border-radius: 3px;'>"
LegendSpanB ==
    <<";"," ","p","a","d","d","i","n","g",":"," ","2","p","x"," ","5","p","x",
      ";"," ","b","o","r","d","e","r","-","r","a","d","i","u","s",":"," ","3",
      "p","x",";","'",">">>

\* '</div>'
LegendClose ==
    <<"<","/","d","i","v",">">>

\* the colour of a term at idx 5 or more is the last of the palette
LegendColorClamped(i) ==
    HighlightColors[IF i < Len(HighlightColors) THEN i + 1 ELSE Len(HighlightColors)]

\* colors[idx % len(colors)] in get_color_legend
LegendColor(i) == HighlightColors[(i % Len(HighlightColors)) + 1]

\* the span of one term in the legend
LegendEntry(color, term) == LegendSpanA \o color \o LegendSpanB \o term \o SpanClose

\* one iteration of the loop of get_color_legend, for the term at Python's
\* idx i
LegendIteration(legend, term, i) ==
    IF Strip(term) # <<>> THEN legend \o LegendEntry(LegendColor(i), term)
    ELSE legend

\* 'rain'
Rain ==
    <<"r","a","i","n">>

\* 'surat'
Surat ==
    <<"s","u","r","a","t">>

\* 'news'
News ==
    <<"n","e","w","s">>

\* ''
BlankTerm ==
    <<>>

\* ' '
SpacesTerm ==
    <<" ">>

\* 'Cricket matches in Gujarat: rain in Surat news'
Sentence ==
    <<"C","r","i","c","k","e","t"," ","m","a","t","c","h","e","s"," ","i","n",
      " ","G","u","j","a","r","a","t",":"," ","r","a","i","n"," ","i","n"," ",
      "S","u","r","a","t"," ","n","e","w","s">>

\* 'Rain in Surat'
SentenceShort ==
    <<"R","a","i","n"," ","i","n"," ","S","u","r","a","t">>

\* the term lists: empty, blank terms before and between words, more terms
\* than colours, a word twice, a word in upper case
TermLists ==
    {<<>>,
     <<Cricket>>,
     <<BlankTerm, SpacesTerm>>,
     <<BlankTerm, Cricket, SpacesTerm, Gujarat>>,
     <<Cricket, Gujarat, Matches, Rain, Surat, News>>,
     <<SpacesTerm, Gujarat, Matches, Rain, Surat, Cricket, News>>,
     <<Cricket, Gujarat, Cricket>>,
     <<CricketUpper, Rain>>}

HighlightContents == {<<>>, Sentence, SentenceShort}

InitHighlight ==
    /\ current_tags \in TermLists
    /\ hcontent \in HighlightContents
    /\ legend_html = <<>>
    /\ highlighted_content = <<>>
    /\ tidx = 0
    /\ hpc = "legend_call"
    /\ SearchIdle
    /\ ParseIdle
    /\ InterpIdle
    /\ FormatIdle
    /\ CacheIdle

\* get_color_legend(tags) up to its loop: "" for no terms, else the opening
\* of the legend
LegendStart ==
    /\ hpc = "legend_call"
    /\ IF current_tags = <<>>
       THEN /\ legend_html' = <<>>
            /\ hpc' = "highlight_call"
       ELSE /\ legend_html' = LegendOpen \o LegendHeader
            /\ hpc' = "legend_loop"
    /\ tidx' = 0
    /\ UNCHANGED <<current_tags, hcontent, highlighted_content>>
    /\ UNCHANGED <<searchVars, parseVars, interpVars, formatVars, cacheVars>>

\* one iteration of the loop of get_color_legend
LegendTerm ==
    /\ hpc = "legend_loop"
    /\ tidx < Len(current_tags)
    /\ legend_html' = LegendIteration(legend_html, current_tags[tidx + 1], tidx)
    /\ tidx' = tidx + 1
    /\ UNCHANGED <<current_tags, hcontent, highlighted_content, hpc>>
    /\ UNCHANGED <<searchVars, parseVars, interpVars, formatVars, cacheVars>>

\* the legend is closed and returned
LegendReturn ==
    /\ hpc = "legend_loop"
    /\ tidx = Len(current_tags)
    /\ legend_html' = legend_html \o LegendClose
    /\ hpc' = "highlight_call"
    /\ tidx' = 0
    /\ UNCHANGED <<current_tags, hcontent, highlighted_content>>
    /\ UNCHANGED <<searchVars, parseVars, interpVars, formatVars, cacheVars>>

\* highlight_matching_text(content, tags) up to its loop
HighlightStart ==
    /\ hpc = "highlight_call"
    /\ highlighted_content' = hcontent
    /\ tidx' = 0
    /\ hpc' = "highlight_loop"
    /\ UNCHANGED <<current_tags, hcontent, legend_html>>
    /\ UNCHANGED <<searchVars, parseVars, interpVars, formatVars, cacheVars>>

\* one iteration of the loop of highlight_matching_text
HighlightTerm ==
    /\ hpc = "highlight_loop"
    /\ tidx < Len(current_tags)
    /\ highlighted_content' =
           HighlightIteration(highlighted_content, current_tags[tidx + 1], tidx)
    /\ tidx' = tidx + 1
    /\ UNCHANGED <<current_tags, hcontent, legend_html, hpc>>
    /\ UNCHANGED <<searchVars, parseVars, interpVars, formatVars, cacheVars>>

\* the highlighted content is returned
HighlightReturn ==
    /\ hpc = "highlight_loop"
    /\ tidx = Len(current_tags)
    /\ hpc' = "done"
    /\ UNCHANGED <<current_tags, hcontent, legend_html, highlighted_content, tidx>>
    /\ UNCHANGED <<searchVars, parseVars, interpVars, formatVars, cacheVars>>

NextHighlight ==
    \/ LegendStart \/ LegendTerm \/ LegendReturn
    \/ HighlightStart \/ HighlightTerm \/ HighlightReturn

SpecHighlight == InitHighlight /\ [][NextHighlight]_vars

\* the term at Python's idx i
TermAt(i) == current_tags[i + 1]

TermIndexes == 0..(Len(current_tags) - 1)

BlankAt(i) == \A k \in 1..Len(TermAt(i)) : IsSpace(TermAt(i)[k])

\* palette[i mod 5]
Palette(i) == HighlightColors[(i % 5) + 1]

PaletteColors == {HighlightColors[k] : k \in 1..5}

\* the colours of the positions where the term at idx i stands in the list
ColorsOf(i) == {Palette(j) : j \in {j \in TermIndexes : TermAt(j) = TermAt(i)}}

\* the number of places where pat occurs in s
Occurrences(s, pat) == Cardinality({p \in 1..Len(s) : StartsAt(s, pat, p)})

\* get_color_legend has returned
LegendReturned == hpc \in {"highlight_call", "highlight_loop", "done"}

\* the legend shows every non-blank term on the colour of its position and on
\* no other, shows no blank term, and has one span for each non-blank term
LegendByPosition ==
    /\ \A i \in TermIndexes :
         IF BlankAt(i)
         THEN \A c \in PaletteColors :
                  ~Contains(legend_html, LegendEntry(c, TermAt(i)))
         ELSE /\ Contains(legend_html, LegendEntry(Palette(i), TermAt(i)))
              /\ \A c \in PaletteColors \ ColorsOf(i) :
                     ~Contains(legend_html, LegendEntry(c, TermAt(i)))
    /\ Occurrences(legend_html, LegendSpanA)
           = Cardinality({i \in TermIndexes : ~BlankAt(i)})

\* no other non-blank term of the list holds the term at idx i or is held by
\* it, so that the spans of the term are not nested with those of another
Separate(i) ==
    \A j \in TermIndexes \ {i} :
        BlankAt(j) \/ (/\ ~Contains(Lower(TermAt(i)), Lower(TermAt(j)))
                       /\ ~Contains(Lower(TermAt(j)), Lower(TermAt(i))))

\* the text of the first match of the term at idx i in the content
FirstMatch(i) ==
    LET p == Find(Lower(hcontent), Lower(TermAt(i)), 1)
    IN  SubSeq(hcontent, p, p + Len(TermAt(i)) - 1)

Matched(i) == Contains(Lower(hcontent), Lower(TermAt(i)))

\* the matches of every non-blank term stand on the colour of its position
\* and on no other, no blank term is wrapped, and a list of blank terms
\* leaves the content as it was
HighlightByPosition ==
    /\ \A i \in TermIndexes :
         IF BlankAt(i)
         THEN \A c \in PaletteColors :
                  ~Contains(highlighted_content, Span(c, TermAt(i)))
         ELSE (Separate(i) /\ Matched(i)) =>
                  /\ Contains(highlighted_content, Span(Palette(i), FirstMatch(i)))
                  /\ \A c \in PaletteColors \ {Palette(i)} :
                         ~Contains(highlighted_content, Span(c, FirstMatch(i)))
    /\ (\A i \in TermIndexes : BlankAt(i)) => highlighted_content = hcontent

\* C11: highlight_matching_text and get_color_legend both give the non-blank
\* term at index i the colour palette[i mod 5], and both skip the blank terms
\* without shifting the colour of a later term.
C11_ColorByPosition ==
    /\ LegendReturned => LegendByPosition
    /\ hpc = "done" => HighlightByPosition

\* both functions have returned for a list with a blank term before a
\* matching word at an index past the palette
C11_Witness ==
    /\ hpc = "done"
    /\ \E i, j \in TermIndexes :
         /\ i < j /\ j >= 5
         /\ BlankAt(i) /\ ~BlankAt(j)
         /\ Separate(j) /\ Matched(j)
         /\ Contains(highlighted_content, Span(Palette(j), FirstMatch(j)))
         /\ Contains(legend_html, LegendEntry(Palette(j), TermAt(j)))

\* ------------------------------------------------------------------------
\* format_search_results, format_article_content (src/utils.py)
\* ------------------------------------------------------------------------

\* the names bound in the namespace of utils.py: its imports (lines 1-6),
\* its logger and its functions
UtilsGlobals ==
    {"logging", "re", "datetime", "Tuple", "List", "Dict", "Optional", "st",
     "Config", "logger", "parse_article", "parse_mixtral_response",
     "validate_date", "format_search_results", "format_article_content",
     "create_custom_css"}

\* looking the name up in utils.py does not raise NameError
Bound(name) == name \in UtilsGlobals

\* dict.get(key, default)
Get(d, key, default) == IF key \in DOMAIN d THEN d[key] ELSE default

\* d[key] = value
Put(d, key, value) == (key :> value) @@ d

\* translate_text invokes the translation service for these arguments
Invokes(text, source, target) == text # <<>> /\ text # None /\ source # target

\* the try block of format_article_content: the article as it is when the
\* block ends or raises, and the number of calls of the translation service
FormatContentTry(article, tagList, target, ok) ==
    LET content == Get(article, "content", <<>>)
    IN  IF ~Bound("detect_language")
        THEN [raised |-> TRUE, article |-> article, calls |-> 0]
        ELSE
        LET source == detect_language(content)
            stored == Put(Put(article, "original_content", content),
                          "original_lang", source)
        IN  IF target # source
            THEN IF ~Bound("translate_text")
                 THEN [raised |-> TRUE, article |-> stored, calls |-> 0]
                 ELSE
                 LET translated_content == translate_text(content, source, target, ok)
                     calls == IF Invokes(content, source, target) THEN 1 ELSE 0
                 IN  IF tagList # <<>>
                     THEN IF ~Bound("highlight_matching_text")
                          THEN [raised |-> TRUE, article |-> stored, calls |-> calls]
                          ELSE [raised |-> FALSE,
                                article |->
                                  Put(stored, "content",
                                      highlight_matching_text(translated_content,
                                                              tagList)),
                                calls |-> calls]
                     ELSE [raised |-> FALSE,
                           article |-> Put(stored, "content", translated_content),
                           calls |-> calls]
            ELSE IF tagList # <<>>
                 THEN IF ~Bound("highlight_matching_text")
                      THEN [raised |-> TRUE, article |-> stored, calls |-> 0]
                      ELSE [raised |-> FALSE,
                            article |->
                              Put(stored, "content",
                                  highlight_matching_text(content, tagList)),
                            calls |-> 0]
                 ELSE [raised |-> FALSE, article |-> stored, calls |-> 0]

\* format_article_content(article, tags, target_lang): the except branch
\* returns the article as the try block left it
format_article_content(article, tagList, target, ok) ==
    LET t == FormatContentTry(article, tagList, target, ok)
    IN  [article |-> t.article, calls |-> t.calls]

\* the try block of the loop of format_search_results for one result
FormatResultTry(result, tagList, target, ok) ==
    IF ~Bound("detect_language") \/ "title" \notin DOMAIN result
    THEN [raised |-> TRUE, article |-> result, calls |-> 0]
    ELSE
    LET title_lang == detect_language(result.title)
    IN  IF target # title_lang /\ ~Bound("translate_text")
        THEN [raised |-> TRUE, article |-> result, calls |-> 0]
        ELSE
        LET titled == IF target # title_lang
                      THEN Put(result, "title",
                               translate_text(result.title, title_lang, target, ok))
                      ELSE result
            titleCalls == IF target # title_lang
                             /\ Invokes(result.title, title_lang, target)
                          THEN 1 ELSE 0
            f == format_article_content(titled, tagList, target, ok)
        IN  [raised |-> FALSE, article |-> f.article, calls |-> titleCalls + f.calls]

\* one iteration of the loop: the formatted result, or the original result
\* where the try block raises
FormatResult(result, tagList, target, ok) ==
    LET t == FormatResultTry(result, tagList, target, ok)
    IN  IF t.raised THEN [article |-> result, calls |-> t.calls]
        ELSE [article |-> t.article, calls |-> t.calls]

\* ------------------------------------------------------------------------
\* the inputs of a formatting
\* ------------------------------------------------------------------------

\* an article in Gujarati
BodyGujarati ==
    TitleMarker \o <<" ">> \o QueryGu \o <<"\n">> \o DateMarker \o <<" ">>
    \o DateJune1 \o <<"\n">> \o ContentMarker \o <<" ">> \o QueryGu

\* an article dict without a title
ArticleUntitled ==
    [date |-> NoDateText, link |-> NoLink, content |-> Cricket,
     raw_content |-> Cricket]

FormatArticles ==
    {parse_article(BodyAll), parse_article(BodyOther), parse_article(BodyGujarati),
     ArticleUntitled}

\* the most results a formatting is given
MaxResults == 2

InitFormat ==
    /\ \/ /\ fpc = "article"
          /\ farticle \in FormatArticles
          /\ fresults = <<>>
       \/ /\ fpc = "results"
          /\ farticle = ErrorArticle(None)
          /\ fresults \in UNION {[1..n -> FormatArticles] : n \in 0..MaxResults}
    /\ ftags \in {<<>>, <<Cricket>>, <<CricketUpper, Matches, Gujarat>>}
    /\ target_lang \in {"en", "gu"}
    /\ formatted_results = <<>>
    /\ fidx = 1
    /\ fout = ErrorArticle(None)
    /\ translations = 0
    /\ SearchIdle
    /\ ParseIdle
    /\ InterpIdle
    /\ CacheIdle
    /\ HighlightIdle

\* a call of format_article_content(article, tags, target_lang)
FormatArticleContent ==
    /\ fpc = "article"
    /\ \E ok \in BOOLEAN :
         LET f == format_article_content(farticle, ftags, target_lang, ok)
         IN  /\ fout' = f.article
             /\ translations' = translations + f.calls
    /\ fpc' = "article_done"
    /\ UNCHANGED <<fresults, farticle, ftags, target_lang, formatted_results, fidx>>
    /\ UNCHANGED <<searchVars, parseVars, interpVars, cacheVars,
                   highlightVars>>

\* one iteration of the loop of format_search_results
FormatNextResult ==
    /\ fpc = "results"
    /\ fidx <= Len(fresults)
    /\ \E ok \in BOOLEAN :
         LET f == FormatResult(fresults[fidx], ftags, target_lang, ok)
         IN  /\ formatted_results' = Append(formatted_results, f.article)
             /\ translations' = translations + f.calls
    /\ fidx' = fidx + 1
    /\ UNCHANGED <<fresults, farticle, ftags, target_lang, fout, fpc>>
    /\ UNCHANGED <<searchVars, parseVars, interpVars, cacheVars,
                   highlightVars>>

\* return formatted_results
FormatReturn ==
    /\ fpc = "results"
    /\ fidx > Len(fresults)
    /\ fpc' = "results_done"
    /\ UNCHANGED <<fresults, farticle, ftags, target_lang, formatted_results, fidx,
                   fout, translations>>
    /\ UNCHANGED <<searchVars, parseVars, interpVars, cacheVars,
                   highlightVars>>

NextFormat == FormatArticleContent \/ FormatNextResult \/ FormatReturn

SpecFormat == InitFormat /\ [][NextFormat]_vars

\* ------------------------------------------------------------------------
\* format_article_content, format_search_results: the claims
\* ------------------------------------------------------------------------

\* the body of the article before the call
BodyBefore == Get(farticle, "content", <<>>)

\* C5: format_article_content stores the body it was given in
\* original_content and the detected language in original_lang, and where
\* that language is the target language the translation service is not
\* called.
C5_OriginalStored ==
    fpc = "article_done" =>
        /\ "original_content" \in DOMAIN fout
        /\ fout["original_content"] = BodyBefore
        /\ "original_lang" \in DOMAIN fout
        /\ fout["original_lang"] = detect_language(BodyBefore)
        /\ detect_language(BodyBefore) = target_lang => translations = 0

\* the result at position i is the formatted article: it holds the body it
\* was given as original_content
Formatted(i) ==
    /\ "original_content" \in DOMAIN formatted_results[i]
    /\ formatted_results[i]["original_content"] = fresults[i].content

\* formatting the result at position i fails: it has no title to read
Defective(i) == "title" \notin DOMAIN fresults[i]

\* C7: format_search_results returns as many articles as it was given, the
\* i-th made from the i-th; a result whose formatting fails is emitted as it
\* was given, and the other results are formatted.
C7_OrderedAndTolerant ==
    fpc = "results_done" =>
        /\ Len(formatted_results) = Len(fresults)
        /\ \A i \in 1..Len(fresults) :
             /\ formatted_results[i].raw_content = fresults[i].raw_content
             /\ Defective(i) => formatted_results[i] = fresults[i]
             /\ ~Defective(i) => Formatted(i)


\* ------------------------------------------------------------------------
\* get_github_files (src/github_utils.py)
\* ------------------------------------------------------------------------

\* 'dd_news_pahe_'
NewsPrefix ==
    <<"d","d","_","n","e","w","s","_","p","a","h","e","_">>

\* '.txt'
NewsSuffix ==
    <<".","t","x","t">>

\* 'dd_news_pahe_1.txt'
NameNews1 ==
    <<"d","d","_","n","e","w","s","_","p","a","h","e","_","1",".","t","x",
      "t">>

\* 'dd_news_pahe_2.txt'
NameNews2 ==
    <<"d","d","_","n","e","w","s","_","p","a","h","e","_","2",".","t","x",
      "t">>

\* 'README.md'
NameReadme ==
    <<"R","E","A","D","M","E",".","m","d">>

\* 'archive'
NameArchive ==
    <<"a","r","c","h","i","v","e">>

\* str.startswith, str.endswith
StartsWith(s, prefix) == StartsAt(s, prefix, 1)

EndsWith(s, suffix) == StartsAt(s, suffix, Len(s) - Len(suffix) + 1)

\* the repository: its root, and the contents of its one directory
RepoDirs ==
    [root |-> <<[type |-> "file", name |-> NameReadme],
                [type |-> "dir", name |-> NameArchive],
                [type |-> "file", name |-> NameNews1]>>,
     archive |-> <<[type |-> "file", name |-> NameNews2]>>]

\* repo.get_contents(path)
GetContents(entry) == IF entry.name = NameArchive THEN RepoDirs.archive ELSE <<>>

\* the while loop over contents: directories are expanded, the news files
\* are collected
RECURSIVE WalkContents(_, _)
WalkContents(contents, news_files) ==
    IF contents = <<>> THEN news_files
    ELSE LET file_content == Head(contents)
             rest == Tail(contents)
         IN  IF file_content.type = "dir"
             THEN WalkContents(rest \o GetContents(file_content), news_files)
             ELSE IF /\ StartsWith(file_content.name, NewsPrefix)
                     /\ EndsWith(file_content.name, NewsSuffix)
             THEN WalkContents(rest, Append(news_files, file_content.name))
             ELSE WalkContents(rest, news_files)

\* get_github_files(): the names of the news files, [] when the request
\* raises
get_github_files(ok) == IF ok THEN WalkContents(RepoDirs.root, <<>>) ELSE <<>>

\* ------------------------------------------------------------------------
\* st.cache_data(ttl=...) around query_mixtral, get_file_content,
\* get_github_files and translate_text
\* ------------------------------------------------------------------------

\* Config.CACHE_TTL, and the ttl of the three other decorators, in seconds
CACHE_TTL == 3600

\* the time between two events of the model, in seconds
ClockStep == CACHE_TTL \div 2

\* the last second of a behaviour
MaxClock == 7200

\* the most calls of a behaviour
MaxCalls == 3

Services == {"model", "store", "translator"}

\* the calls: the function, its arguments (the key of its cache), the service
\* it asks
CachedCalls ==
    {[fn |-> "query_mixtral", arg |-> QueryEn, service |-> "model"],
     [fn |-> "query_mixtral", arg |-> ReplyPreamble, service |-> "model"],
     [fn |-> "get_file_content", arg |-> NameNews1, service |-> "store"],
     [fn |-> "get_github_files", arg |-> <<>>, service |-> "store"],
     [fn |-> "translate_text", arg |-> QueryGu, service |-> "translator"]}

\* what the service answers to the call when it answers
Answer(call) ==
    IF call.fn = "query_mixtral" THEN TagsOpen \o call.arg \o <<"]">>
    ELSE IF call.fn = "get_file_content" THEN BodyTwo
    ELSE <<>>

\* the body of the function: what the call returns when nothing is cached
Uncached(call, ok) ==
    IF call.fn = "query_mixtral" THEN query_mixtral(ok, Answer(call)).value
    ELSE IF call.fn = "get_file_content" THEN get_file_content(Answer(call), ok)
    ELSE IF call.fn = "get_github_files" THEN get_github_files(ok)
    ELSE translate_text(call.arg, "gu", "en", ok)

\* the entry of the call is in the cache and younger than the ttl
Fresh(call, t) == call \in DOMAIN cache /\ t - cache[call].at < CACHE_TTL

\* the decorator stores every value the function returns
Store(call, value, t) == (call :> [value |-> value, at |-> t]) @@ cache

InitCache ==
    /\ now = 0
    /\ up = [s \in Services |-> TRUE]
    /\ cache = <<>>
    /\ ncalls = 0
    /\ lastCall = <<>>
    /\ withCache = None
    /\ withoutCache = None
    /\ SearchIdle
    /\ ParseIdle
    /\ InterpIdle
    /\ FormatIdle
    /\ HighlightIdle

\* a call of a cached function: the stored value if there is a fresh one,
\* else the function runs and its return value is stored
CallCached ==
    /\ ncalls < MaxCalls
    /\ \E call \in CachedCalls :
         LET direct == Uncached(call, up[call.service])
         IN  /\ withoutCache' = direct
             /\ IF Fresh(call, now)
                THEN /\ withCache' = cache[call].value
                     /\ cache' = cache
                ELSE /\ withCache' = direct
                     /\ cache' = Store(call, direct, now)
             /\ lastCall' = <<call>>
    /\ ncalls' = ncalls + 1
    /\ UNCHANGED <<now, up>>
    /\ UNCHANGED <<searchVars, parseVars, interpVars, formatVars, highlightVars>>

\* a service starts to fail
ServiceFails ==
    /\ \E s \in Services : up[s] /\ up' = [up EXCEPT ![s] = FALSE]
    /\ UNCHANGED <<now, cache, ncalls, lastCall, withCache, withoutCache>>
    /\ UNCHANGED <<searchVars, parseVars, interpVars, formatVars, highlightVars>>

\* a failing service recovers
ServiceRecovers ==
    /\ \E s \in Services : ~up[s] /\ up' = [up EXCEPT ![s] = TRUE]
    /\ UNCHANGED <<now, cache, ncalls, lastCall, withCache, withoutCache>>
    /\ UNCHANGED <<searchVars, parseVars, interpVars, formatVars, highlightVars>>

\* time passes
Tick ==
    /\ now + ClockStep <= MaxClock
    /\ now' = now + ClockStep
    /\ UNCHANGED <<up, cache, ncalls, lastCall, withCache, withoutCache>>
    /\ UNCHANGED <<searchVars, parseVars, interpVars, formatVars, highlightVars>>

NextCache == CallCached \/ ServiceFails \/ ServiceRecovers \/ Tick

SpecCache == InitCache /\ [][NextCache]_vars

\* the step is a call made while the service it asks answers
AnsweredCall ==
    /\ ncalls' = ncalls + 1
    /\ \A i \in 1..Len(lastCall') : up[lastCall'[i].service]

\* C9, for the calls made while the service answers: a call of a cached
\* function returns what it would return with the cache disabled, whatever
\* failed before.
C9_CacheTransparent == [][AnsweredCall => withCache' = withoutCache']_vars


====
